---- MODULE Spec2Model ----
(***************************************************************************)
(* pomchat: a message store (SQLite, database.py) whose add_message also   *)
(* projects every message as a file + commit into a git working copy and   *)
(* pushes it (git_sync.py).                                                *)
(*                                                                         *)
(* Each thread runs one call at a time.  add_message is split at the       *)
(* points where other threads can interleave: the INSERT (which takes the  *)
(* SQLite write lock and opens the transaction), the five steps of         *)
(* sync_message, and the UPDATE + COMMIT that close the transaction.       *)
(***************************************************************************)
EXTENDS Integers, Sequences, FiniteSets, TLC

\* ------------------------------------------------------------------ bounds
MaxInserts == 2     \* INSERTs of add_message in one behaviour, rolled back or not
MaxClock == 2       \* last clock reading

Threads == {"t1", "t2"}
\* database files: db_path is a constructor argument (database.py:20) ...
DBs == {"db1", "db2"}
\* ... while every DatabaseManager opens the same working copy (database.py:24)

NULL == 0                       \* SQL NULL / Python None in a numeric column
None == "<None>"                \* Python None for a text argument
Contents == {"", "hi"}
Senders == {"", "bob"}
Hashes == 1..MaxInserts         \* commit identifiers: position in the history
Ids == 1..MaxInserts

\* --------------------------------------------------------------- variables
VARIABLES
    clock,      \* datetime.now()
    store,      \* store[d]: the committed content of database file d
    call,       \* call[t]: the call thread t is in, with its locals
    last,       \* outcome of the call the last step ended, if it ended one
    worktree,   \* files in <repo>/messages of the working copy
    index,      \* files staged in the working copy and not yet committed
    commits,    \* local history: sequence of commits, each a set of files
    pushed,     \* number of commits of the local history the remote holds
    inserts,    \* INSERTs executed so far
    handed,     \* handed[d]: the highest id an INSERT on d ever handed out
    attempts,   \* sync_message calls made so far
    client,     \* a GitSyncManager has been constructed
    returned    \* returned[d]: messages whose add_message returned their id

vars == <<clock, store, call, last, worktree, index, commits, pushed,
          inserts, handed, attempts, client, returned>>

\* ------------------------------------------------------------ record store
\* A row of table messages.
Row(id, content, timestamp, sender, git_hash, is_synchronized, created_at, updated_at) ==
    [id |-> id, content |-> content, timestamp |-> timestamp, sender |-> sender,
     git_hash |-> git_hash, is_synchronized |-> is_synchronized,
     created_at |-> created_at, updated_at |-> updated_at]

\* A database file: its rows and the AUTOINCREMENT counter (sqlite_sequence).
EmptyDb == [rows |-> {}, seq |-> 0]

\* INSERT INTO messages (...) VALUES (content, now, sender, git_hash, False, now)
InsertRow(db, content, sender, git_hash, now) ==
    [rows |-> db.rows \cup
               {Row(db.seq + 1, content, now, sender, git_hash, FALSE, now, NULL)},
     seq |-> db.seq + 1]

\* UpdateRow with "git_hash = ?" left out of the SET list
UpdateRowNoHash(db, message_id, git_hash, now) ==
    [db EXCEPT !.rows =
        {IF r.id = message_id
         THEN [r EXCEPT !.is_synchronized = TRUE, !.updated_at = now]
         ELSE r : r \in db.rows}]

\* UpdateRow with "is_synchronized = NOT is_synchronized"
UpdateRowToggle(db, message_id, git_hash, now) ==
    [db EXCEPT !.rows =
        {IF r.id = message_id
         THEN [r EXCEPT !.git_hash = git_hash, !.is_synchronized = ~@,
                        !.updated_at = now]
         ELSE r : r \in db.rows}]

\* UpdateRow that also sets timestamp, taking it for updated_at
UpdateRowTouchesTimestamp(db, message_id, git_hash, now) ==
    [db EXCEPT !.rows =
        {IF r.id = message_id
         THEN [r EXCEPT !.git_hash = git_hash, !.is_synchronized = TRUE,
                        !.updated_at = now, !.timestamp = now]
         ELSE r : r \in db.rows}]

\* UpdateRow as an upsert: an id that matches no row gets a row made for it
UpdateRowUpsert(db, message_id, git_hash, now) ==
    IF \E r \in db.rows : r.id = message_id
    THEN [db EXCEPT !.rows =
            {IF r.id = message_id
             THEN [r EXCEPT !.git_hash = git_hash, !.is_synchronized = TRUE,
                            !.updated_at = now]
             ELSE r : r \in db.rows}]
    ELSE [db EXCEPT !.rows = @ \cup {Row(message_id, "", now, "", git_hash, TRUE, now, now)}]

\* UPDATE messages SET git_hash = ?, is_synchronized = TRUE, updated_at = ? WHERE id = ?
UpdateRow(db, message_id, git_hash, now) ==
    [db EXCEPT !.rows =
        {IF r.id = message_id
         THEN [r EXCEPT !.git_hash = git_hash, !.is_synchronized = TRUE,
                        !.updated_at = now]
         ELSE r : r \in db.rows}]

\* ------------------------------------------------------------------ threads
Idle == [pc |-> "idle", db |-> "db1", txn |-> EmptyDb, content |-> "",
         sender |-> "", now |-> 0, message_id |-> NULL, commit_hash |-> NULL]

\* what a call ends with: it returned (a value) or it raised
Outcome(t, op, status, d, id, commit_hash, rows) ==
    [op |-> op, status |-> status, db |-> d, id |-> id,
     commit_hash |-> commit_hash, rows |-> rows]

NoOutcome == Outcome("t1", "none", "none", "db1", NULL, NULL, <<>>)

\* The SQLite write lock of database d is held from the INSERT of an
\* add_message to the end of its transaction.
WriteLocked(d) == \E t \in Threads : call[t].pc # "idle" /\ call[t].db = d

\* the message dict handed to sync_message
Message(c) == [id |-> c.message_id, content |-> c.content, timestamp |-> c.now,
               sender |-> c.sender, created_at |-> c.now]

Init ==
    /\ clock = 1
    /\ store = [d \in DBs |-> EmptyDb]
    /\ call = [t \in Threads |-> Idle]
    /\ last = NoOutcome
    /\ worktree = {}
    /\ index = {}
    /\ commits = <<>>
    /\ pushed = 0
    /\ inserts = 0
    /\ handed = [d \in DBs |-> 0]
    /\ attempts = 0
    /\ client = TRUE
    /\ returned = [d \in DBs |-> {}]

\* ------------------------------------------------------------- working copy
\* strftime('%Y%m%d_%H%M%S') keeps the timestamp to the second only.
TicksPerSecond == 2
SecondOf(timestamp) == timestamp \div TicksPerSecond

\* the characters of file names
Digit(d) == <<"0", "1", "2", "3", "4", "5", "6", "7", "8", "9">>[d + 1]

\* str(id) inside the f-string: the decimal digits, as many as the id has
RECURSIVE Decimal(_)
Decimal(n) == IF n < 10 THEN <<Digit(n)>>
              ELSE Decimal(n \div 10) \o <<Digit(n % 10)>>

\* strftime: fields of fixed width, zero-padded (of '%Y%m%d_%H%M%S' the
\* seconds field, the only one that moves within the model's clock)
Strftime(second) == <<Digit((second \div 10) % 10), Digit(second % 10)>>

\* FileName that leaves the id out of the name
FileNameStampOnly(message) ==
    Strftime(SecondOf(message.timestamp)) \o <<".json">>

\* f"{timestamp.strftime('%Y%m%d_%H%M%S')}_{message['id']}.json"
FileName(message) ==
    Strftime(SecondOf(message.timestamp)) \o <<"_">> \o Decimal(message.id)
    \o <<".json">>

File(message) == [name |-> FileName(message), msg |-> message]

\* open(file_path, 'w'); json.dump(message, f): creates or overwrites the file
WriteFile(files, message) ==
    {f \in files : f.name # FileName(message)} \cup {File(message)}

\* the files of the tree of HEAD: for each name, its latest committed version
RECURSIVE HeadTree(_)
HeadTree(history) ==
    IF history = <<>> THEN {}
    ELSE LET top == history[Len(history)].files
             before == HeadTree(SubSeq(history, 1, Len(history) - 1))
         IN  {f \in before : \A g \in top : g.name # f.name} \cup top

\* git add <file_path>: the index takes the file as the working copy has it
\* now, when that differs from what HEAD records under the name
StageFile(staged, files, history, name) ==
    {f \in staged : f.name # name} \cup
    {f \in files : f.name = name /\ f \notin HeadTree(history)}

\* git commit -m "Add message <id> from <sender>" --author ...: one commit of
\* everything the index holds
Commit(staged, message) ==
    [files |-> staged, message_id |-> message.id, author |-> message.sender]

\* ------------------------------------------------------- DatabaseManager
\* AddMessageInsert on a connection in autocommit mode: the INSERT is
\* committed at once, before the projection
AddMessageInsertAutocommit(t, d, content, sender, git_hash) ==
    /\ call[t].pc = "idle"
    /\ client
    /\ content # None /\ sender # None
    /\ ~WriteLocked(d)
    /\ inserts < MaxInserts
    /\ store' = [store EXCEPT ![d] = InsertRow(@, content, sender, git_hash, clock)]
    /\ call' = [call EXCEPT ![t] =
                  [pc |-> "sync_write", db |-> d,
                   txn |-> InsertRow(store[d], content, sender, git_hash, clock),
                   content |-> content, sender |-> sender, now |-> clock,
                   message_id |-> store[d].seq + 1, commit_hash |-> NULL]]
    /\ inserts' = inserts + 1
    /\ handed' = [handed EXCEPT ![d] = IF store[d].seq + 1 > @ THEN store[d].seq + 1 ELSE @]
    /\ attempts' = attempts + 1
    /\ last' = NoOutcome
    /\ UNCHANGED <<clock, worktree, index, commits, pushed, returned, client>>

\* add_message, lines 101-125: connect, INSERT (takes the write lock, the
\* transaction stays open), lastrowid, and the call of sync_message
AddMessageInsert(t, d, content, sender, git_hash) ==
    /\ call[t].pc = "idle"
    /\ client                                  \* self.git_sync, line 24
    /\ content # None /\ sender # None          \* NOT NULL columns
    /\ ~WriteLocked(d)
    /\ inserts < MaxInserts
    /\ call' = [call EXCEPT ![t] =
                  [pc |-> "sync_write", db |-> d,
                   txn |-> InsertRow(store[d], content, sender, git_hash, clock),
                   content |-> content, sender |-> sender, now |-> clock,
                   message_id |-> store[d].seq + 1, commit_hash |-> NULL]]
    /\ inserts' = inserts + 1
    /\ handed' = [handed EXCEPT ![d] = IF store[d].seq + 1 > @ THEN store[d].seq + 1 ELSE @]
    /\ attempts' = attempts + 1                \* line 125: sync_message is called
    /\ last' = NoOutcome
    /\ UNCHANGED <<clock, store, worktree, index, commits, pushed, returned, client>>

\* add_message, lines 139-141, before any row exists: the INSERT raised
\* sqlite3.Error (IntegrityError for a None argument, "database is locked"
\* while another transaction holds the write lock, an I/O error)
AddMessageInsertError(t, d) ==
    /\ call[t].pc = "idle"
    /\ last' = Outcome(t, "add_message", "raised", d, NULL, NULL, <<>>)
    /\ UNCHANGED <<clock, store, call, worktree, index, commits, pushed,
                   inserts, handed, returned, attempts, client>>

\* sync_message returns (a commit hash, or None): back in add_message
SyncReturn(c, hash) == [c EXCEPT !.pc = "finish", !.commit_hash = hash]

\* sync_message, lines 73-80: name the file and write it
SyncWriteFile(t) ==
    /\ call[t].pc = "sync_write"
    /\ worktree' = WriteFile(worktree, Message(call[t]))
    /\ call' = [call EXCEPT ![t].pc = "sync_add"]
    /\ last' = NoOutcome
    /\ UNCHANGED <<clock, store, index, commits, pushed, inserts, handed, returned, attempts, client>>

\* sync_message, lines 83-86: git add
SyncStage(t) ==
    /\ call[t].pc = "sync_add"
    /\ index' = StageFile(index, worktree, commits, FileName(Message(call[t])))
    /\ call' = [call EXCEPT ![t].pc = "sync_commit"]
    /\ last' = NoOutcome
    /\ UNCHANGED <<clock, store, worktree, commits, pushed, inserts, handed, returned, attempts, client>>

\* sync_message, lines 89-97: git commit; "nothing to commit" is a failure
SyncCommit(t) ==
    /\ call[t].pc = "sync_commit"
    /\ index # {}
    /\ commits' = Append(commits, Commit(index, Message(call[t])))
    /\ index' = {}
    /\ call' = [call EXCEPT ![t].pc = "sync_revparse"]
    /\ last' = NoOutcome
    /\ UNCHANGED <<clock, store, worktree, pushed, inserts, handed, returned, attempts, client>>

\* sync_message, lines 100-108: git rev-parse HEAD
SyncRevParse(t) ==
    /\ call[t].pc = "sync_revparse"
    /\ call' = [call EXCEPT ![t].pc = "sync_push", ![t].commit_hash = Len(commits)]
    /\ last' = NoOutcome
    /\ UNCHANGED <<clock, store, worktree, index, commits, pushed,
                   inserts, handed, returned, attempts, client>>

\* sync_message, lines 111-117: git push sends every local commit
SyncPush(t) ==
    /\ call[t].pc = "sync_push"
    /\ pushed' = Len(commits)
    /\ call' = [call EXCEPT ![t] = SyncReturn(@, @.commit_hash)]
    /\ last' = NoOutcome
    /\ UNCHANGED <<clock, store, worktree, index, commits, inserts, handed, returned, attempts, client>>

\* SyncFail that hands back the hash it has read when the push fails
SyncFailKeepsHash(t) ==
    /\ call[t].pc \in {"sync_write", "sync_add", "sync_commit", "sync_revparse",
                       "sync_push"}
    /\ call' = [call EXCEPT ![t] = SyncReturn(@, @.commit_hash)]
    /\ last' = NoOutcome
    /\ UNCHANGED <<clock, store, worktree, index, commits, pushed,
                   inserts, handed, returned, attempts, client>>

\* sync_message, lines 84-86, 95-97, 104-106, 112-114, 119-121: the step at
\* hand fails (non-zero return code, or an exception): return None
SyncFail(t) ==
    /\ call[t].pc \in {"sync_write", "sync_add", "sync_commit", "sync_revparse",
                       "sync_push"}
    /\ call' = [call EXCEPT ![t] = SyncReturn(@, NULL)]
    /\ last' = NoOutcome
    /\ UNCHANGED <<clock, store, worktree, index, commits, pushed,
                   inserts, handed, returned, attempts, client>>

\* MarkIfSynced with the UPDATE forgotten
MarkIfSyncedSkipped(txn, message_id, commit_hash, now) == txn

\* add_message, lines 126-134: the UPDATE, when the projection gave a hash
MarkIfSynced(txn, message_id, commit_hash, now) ==
    IF commit_hash # NULL THEN UpdateRow(txn, message_id, commit_hash, now)
    ELSE txn

\* add_message, lines 126-137: UPDATE, return inside the with block, COMMIT
AddMessageFinish(t) ==
    LET c == call[t] IN
    /\ c.pc = "finish"
    /\ store' = [store EXCEPT ![c.db] =
                   MarkIfSynced(c.txn, c.message_id, c.commit_hash, c.now)]
    /\ last' = Outcome(t, "add_message", "returned", c.db, c.message_id, c.commit_hash, <<>>)
    /\ returned' = [returned EXCEPT ![c.db] = @ \cup {Message(c)}]
    /\ call' = [call EXCEPT ![t] = Idle]
    /\ UNCHANGED <<clock, worktree, index, commits, pushed, inserts, handed, attempts, client>>

\* add_message, lines 139-141, after the projection: the UPDATE or the COMMIT
\* raised sqlite3.Error; the with block rolls the transaction back, INSERT
\* included, and the error is raised again
AddMessageStoreError(t) ==
    LET c == call[t] IN
    /\ c.pc = "finish"
    /\ last' = Outcome(t, "add_message", "raised", c.db, c.message_id, c.commit_hash, <<>>)
    /\ call' = [call EXCEPT ![t] = Idle]
    /\ UNCHANGED <<clock, store, worktree, index, commits, pushed, inserts, handed, returned, attempts, client>>

\* update_message_sync_status, lines 180-196: UPDATE and COMMIT; an unknown
\* id changes nothing and is only logged
UpdateMessageSyncStatus(t, d, message_id, git_hash) ==
    /\ call[t].pc = "idle"
    /\ ~WriteLocked(d)
    /\ store' = [store EXCEPT ![d] = UpdateRow(@, message_id, git_hash, clock)]
    /\ last' = Outcome(t, "update_message_sync_status", "returned", d,
                       message_id, git_hash, <<>>)
    /\ UNCHANGED <<clock, call, worktree, index, commits, pushed, inserts, handed, returned, attempts, client>>

\* update_message_sync_status, lines 198-200: sqlite3.Error ("database is
\* locked" while an add_message holds the write lock, an I/O error)
UpdateMessageSyncStatusError(t, d) ==
    /\ call[t].pc = "idle"
    /\ last' = Outcome(t, "update_message_sync_status", "raised", d,
                       NULL, NULL, <<>>)
    /\ UNCHANGED <<clock, store, call, worktree, index, commits, pushed,
                   inserts, handed, returned, attempts, client>>

\* Before that puts the oldest first (ORDER BY timestamp, DESC left out)
BeforeOldestFirst(r1, r2) ==
    \/ r1.timestamp < r2.timestamp
    \/ r1.timestamp = r2.timestamp /\ r1.id < r2.id

\* ORDER BY timestamp DESC, read through idx_messages_timestamp backwards:
\* rows of one timestamp come out by descending id
Before(r1, r2) ==
    \/ r1.timestamp > r2.timestamp
    \/ r1.timestamp = r2.timestamp /\ r1.id > r2.id

RECURSIVE OrderByTimestampDesc(_)
OrderByTimestampDesc(rows) ==
    IF rows = {} THEN <<>>
    ELSE LET first == CHOOSE r \in rows : \A o \in rows \ {r} : Before(r, o)
         IN  <<first>> \o OrderByTimestampDesc(rows \ {first})

DefaultLimit == 50
DefaultOffset == 0

\* LimitOffset that starts one row too late
LimitOffsetSkipsOne(ordered, limit, offset) ==
    LET from == IF offset < 0 THEN 1 ELSE offset + 1
        upto == IF limit < 0 \/ from + limit > Len(ordered) THEN Len(ordered)
                ELSE from + limit
    IN  SubSeq(ordered, from + 1, upto)

\* LIMIT ? OFFSET ?: a negative limit is no limit, a negative offset is 0
LimitOffset(ordered, limit, offset) ==
    LET from == IF offset < 0 THEN 0 ELSE offset
        upto == IF limit < 0 \/ from + limit > Len(ordered) THEN Len(ordered)
                ELSE from + limit
    IN  SubSeq(ordered, from + 1, upto)

\* get_messages, lines 158-166, on the committed content of a database
SelectMessages(db, limit, offset) ==
    LimitOffset(OrderByTimestampDesc(db.rows), limit, offset)

\* GetMessages that stamps updated_at on the rows of the database it reads
GetMessagesTouches(t, d, limit, offset) ==
    /\ call[t].pc = "idle"
    /\ ~WriteLocked(d)
    /\ store' = [store EXCEPT ![d].rows = {[r EXCEPT !.updated_at = clock] : r \in @}]
    /\ last' = Outcome(t, "get_messages", "returned", d, NULL, NULL,
                       SelectMessages(store[d], limit, offset))
               @@ [limit |-> limit, offset |-> offset]
    /\ UNCHANGED <<clock, call, worktree, index, commits, pushed,
                   inserts, handed, returned, attempts, client>>

\* get_messages, lines 154-166: a read sees committed rows only; the outcome
\* keeps the arguments of the call next to the list returned
GetMessages(t, d, limit, offset) ==
    /\ call[t].pc = "idle"
    /\ last' = Outcome(t, "get_messages", "returned", d, NULL, NULL,
                       SelectMessages(store[d], limit, offset))
               @@ [limit |-> limit, offset |-> offset]
    /\ UNCHANGED <<clock, store, call, worktree, index, commits, pushed,
                   inserts, handed, returned, attempts, client>>

\* datetime.now() moves on (two readings may be equal; the wall clock is
\* taken not to step back)
Tick ==
    /\ clock < MaxClock
    /\ clock' = clock + 1
    /\ last' = NoOutcome
    /\ UNCHANGED <<store, call, worktree, index, commits, pushed,
                   inserts, handed, returned, attempts, client>>

\* what callers pass: texts (empty, or None for a missing one) and hashes
ValidContents == Contents \ {""}
ValidSenders == Senders \ {""}
CallerHashes == {MaxInserts}
GitHashArgs == {NULL} \cup CallerHashes
Limits == {1, DefaultLimit}
Offsets == {DefaultOffset, 1}

\* the steps of the calls in flight
Step(t) ==
    \/ SyncWriteFile(t)
    \/ SyncStage(t)
    \/ SyncCommit(t)
    \/ SyncRevParse(t)
    \/ SyncPush(t)
    \/ SyncFail(t)
    \/ AddMessageFinish(t)
    \/ AddMessageStoreError(t)

\* One DatabaseManager, on the default database file, shared by the threads;
\* the calls take well-formed arguments and the defaults.
Next ==
    \/ Tick
    \/ \E t \in Threads :
         \/ \E content \in ValidContents, sender \in ValidSenders :
              AddMessageInsert(t, "db1", content, sender, NULL)
         \/ AddMessageInsertError(t, "db1")
         \/ \E message_id \in 1..(MaxInserts + 1), git_hash \in CallerHashes :
              UpdateMessageSyncStatus(t, "db1", message_id, git_hash)
         \/ UpdateMessageSyncStatusError(t, "db1")
         \/ GetMessages(t, "db1", DefaultLimit, DefaultOffset)
         \/ Step(t)

Spec == Init /\ [][Next]_vars

\* Two DatabaseManagers, each on its own database file, both on the one
\* working copy.
NextManagers ==
    \/ Tick
    \/ \E t \in Threads :
         \/ \E d \in DBs : AddMessageInsert(t, d, "hi", "bob", NULL)
         \/ Step(t)

SpecManagers == Init /\ [][NextManagers]_vars

\* One caller, every shape of argument: empty and missing texts, a
\* caller-supplied git_hash, limits and offsets
NextInputs ==
    \/ Tick
    \/ \E t \in {"t1"} :
         \/ \E content \in Contents \cup {None}, sender \in Senders \cup {None},
               git_hash \in GitHashArgs :
              AddMessageInsert(t, "db1", content, sender, git_hash)
         \/ AddMessageInsertError(t, "db1")
         \/ \E limit \in Limits, offset \in Offsets :
              GetMessages(t, "db1", limit, offset)
         \/ Step(t)

SpecInputs == Init /\ [][NextInputs]_vars

\* ---------------------------------------------------------------- server.py
\* The HTTP server keeps its own table: init_database of server.py creates
\* messages with the columns id, content, timestamp, sender and no others.
ServerRow(id, content, timestamp, sender) ==
    [id |-> id, content |-> content, timestamp |-> timestamp, sender |-> sender]

\* INSERT INTO messages (content, timestamp, sender) VALUES (?, ?, ?)
ServerInsertRow(db, content, sender, now) ==
    [rows |-> db.rows \cup {ServerRow(db.seq + 1, content, now, sender)},
     seq |-> db.seq + 1]

\* "not message_data.get(...)": the field is missing, null or empty
Falsy(text) == text = None \/ text = ""

\* handle_new_message, lines 139-141: a missing field is answered 400
HandleNewMessageBadRequest(t, content, sender) ==
    /\ call[t].pc = "idle"
    /\ Falsy(content) \/ Falsy(sender)
    /\ last' = Outcome(t, "handle_new_message", "400", "db1", NULL, NULL, <<>>)
    /\ UNCHANGED <<clock, store, call, worktree, index, commits, pushed,
                   inserts, handed, returned, attempts, client>>

\* handle_new_message, lines 143-160: INSERT and COMMIT on a connection of
\* its own, then 201 Created; neither DatabaseManager nor GitSyncManager is
\* called
HandleNewMessage(t, content, sender) ==
    /\ call[t].pc = "idle"
    /\ ~Falsy(content) /\ ~Falsy(sender)
    /\ ~WriteLocked("db1")
    /\ inserts < MaxInserts
    /\ store' = [store EXCEPT !["db1"] = ServerInsertRow(@, content, sender, clock)]
    /\ inserts' = inserts + 1
    /\ handed' = [handed EXCEPT !["db1"] = store["db1"].seq + 1]
    /\ last' = Outcome(t, "handle_new_message", "201", "db1",
                       store["db1"].seq + 1, NULL, <<>>)
    /\ UNCHANGED <<clock, call, worktree, index, commits, pushed, returned, attempts, client>>

\* handle_new_message, lines 164-166: sqlite3.Error is answered 500
HandleNewMessageError(t, content, sender) ==
    /\ call[t].pc = "idle"
    /\ ~Falsy(content) /\ ~Falsy(sender)
    /\ last' = Outcome(t, "handle_new_message", "500", "db1", NULL, NULL, <<>>)
    /\ UNCHANGED <<clock, store, call, worktree, index, commits, pushed,
                   inserts, handed, returned, attempts, client>>

\* ORDER BY timestamp DESC on the server's table, which has no index on
\* timestamp: the sort keeps rows of one timestamp in id order
ServerBefore(r1, r2) ==
    \/ r1.timestamp > r2.timestamp
    \/ r1.timestamp = r2.timestamp /\ r1.id < r2.id

RECURSIVE ServerOrderByTimestampDesc(_)
ServerOrderByTimestampDesc(rows) ==
    IF rows = {} THEN <<>>
    ELSE LET first == CHOOSE r \in rows : \A o \in rows \ {r} : ServerBefore(r, o)
         IN  <<first>> \o ServerOrderByTimestampDesc(rows \ {first})

\* the LIMIT written into the query of handle_get_messages
ServerLimit == 50

\* handle_get_messages, lines 104-126: SELECT ... ORDER BY timestamp DESC
\* LIMIT 50, answered 200 with the rows
HandleGetMessages(t) ==
    /\ call[t].pc = "idle"
    /\ last' = Outcome(t, "handle_get_messages", "200", "db1", NULL, NULL,
                       LimitOffset(ServerOrderByTimestampDesc(store["db1"].rows),
                                   ServerLimit, DefaultOffset))
    /\ UNCHANGED <<clock, store, call, worktree, index, commits, pushed,
                   inserts, handed, returned, attempts, client>>

\* the fields of a POST body: present, empty, or missing
BodyContents == Contents \cup {"yo", None}
BodySenders == Senders \cup {"amy", None}

\* The HTTP server (run_server): a thread per request, POST /messages and
\* GET /messages, on the table of server.py
NextServer ==
    \/ Tick
    \/ \E t \in Threads :
         \/ \E content \in BodyContents, sender \in BodySenders :
              \/ HandleNewMessageBadRequest(t, content, sender)
              \/ HandleNewMessage(t, content, sender)
              \/ HandleNewMessageError(t, content, sender)
         \/ HandleGetMessages(t)

SpecServer == Init /\ [][NextServer]_vars

\* ------------------------------------------------------- a slow projection
\* the steps of sync_message: pc values of a call inside the projection
SyncSteps == {"sync_write", "sync_add", "sync_commit", "sync_revparse", "sync_push"}

\* add_message, lines 101-111 and 139-141: the INSERT waits for the write
\* lock another add_message holds (sqlite3.connect's default timeout of five
\* seconds), the holder is still busy, and the INSERT raises
\* sqlite3.OperationalError "database is locked"
AddMessageInsertLocked(t, d) ==
    /\ call[t].pc = "idle"
    /\ WriteLocked(d)
    /\ last' = Outcome(t, "add_message", "locked", d, NULL, NULL, <<>>)
    /\ UNCHANGED <<clock, store, call, worktree, index, commits, pushed,
                   inserts, handed, returned, attempts, client>>

\* _run_git_command, lines 49-56: Popen, then communicate() with no timeout;
\* a git process that never exits keeps the call (and its transaction) there
SyncHang(t) ==
    /\ call[t].pc \in SyncSteps \ {"sync_write"}
    /\ call' = [call EXCEPT ![t].pc = "hung"]
    /\ last' = NoOutcome
    /\ UNCHANGED <<clock, store, worktree, index, commits, pushed,
                   inserts, handed, returned, attempts, client>>

\* One DatabaseManager shared by the threads, git commands that may take
\* longer than the lock timeout or never answer
NextSlow ==
    \/ Tick
    \/ \E t \in Threads :
         \/ AddMessageInsert(t, "db1", "hi", "bob", NULL)
         \/ AddMessageInsertLocked(t, "db1")
         \/ Step(t)
         \/ SyncHang(t)

SpecSlow == Init /\ [][NextSlow]_vars

\* the same, every call in flight taking its next step when it has one
SpecSlowFair == SpecSlow /\ \A t \in Threads : WF_vars(Step(t))

\* ----------------------------------------------- projections side by side
\* sync_message, lines 89-97: git commit finds nothing staged (another call's
\* commit took the file along) and exits non-zero: return None
SyncCommitNothing(t) ==
    /\ call[t].pc = "sync_commit"
    /\ index = {}
    /\ call' = [call EXCEPT ![t] = SyncReturn(@, NULL)]
    /\ last' = NoOutcome
    /\ UNCHANGED <<clock, store, worktree, index, commits, pushed,
                   inserts, handed, returned, attempts, client>>

\* Two DatabaseManagers, each on its own database file, both on the one
\* working copy; the disk, git and the remote never fail
NextRace ==
    \/ Tick
    \/ \E t \in Threads :
         \/ \E d \in DBs : AddMessageInsert(t, d, "hi", "bob", NULL)
         \/ SyncWriteFile(t)
         \/ SyncStage(t)
         \/ SyncCommit(t)
         \/ SyncCommitNothing(t)
         \/ SyncRevParse(t)
         \/ SyncPush(t)
         \/ AddMessageFinish(t)

SpecRace == Init /\ [][NextRace]_vars

\* ------------------------------------------------------ paging, on its own
\* the largest table looked at, and its timestamps
MaxRows == 4
Stamps == 1..MaxRows

\* the table after n add_message calls that returned, the i-th at time ts[i]
\* (projection failed: the rows are unsynchronized)
TableOf(n, ts) ==
    [rows |-> {Row(i, "hi", ts[i], "bob", NULL, FALSE, ts[i], NULL) : i \in 1..n},
     seq |-> n]

\* what callers of get_messages pass: any integers
ListLimits == {-1, 0, 1, 2, DefaultLimit}
ListOffsets == {-1, 0, 1, 2}

\* any table of up to MaxRows messages whose timestamps do not step back
InitList ==
    /\ \E n \in 0..MaxRows : \E ts \in [1..n -> Stamps] :
         /\ \A i \in 1..n : \A j \in 1..n : i < j => ts[i] <= ts[j]
         /\ store = [d \in DBs |-> IF d = "db1" THEN TableOf(n, ts) ELSE EmptyDb]
         /\ inserts = n
         /\ attempts = n
         /\ handed = [d \in DBs |-> IF d = "db1" THEN n ELSE 0]
    /\ clock = MaxRows
    /\ call = [t \in Threads |-> Idle]
    /\ last = NoOutcome
    /\ worktree = {}
    /\ index = {}
    /\ commits = <<>>
    /\ pushed = 0
    /\ client = TRUE
    /\ returned = [d \in DBs |-> {}]

NextList ==
    \E limit \in ListLimits, offset \in ListOffsets :
        GetMessages("t1", "db1", limit, offset)

SpecList == InitList /\ [][NextList]_vars

\* ------------------------------------------------------ naming, on its own
\* the largest id a file is named for
MaxNameId == 11

\* sync_message, lines 73-80, for any message dict: name the file, write it
\* (the working copy is kept to MaxInserts files)
WriteMessageFile(id, timestamp) ==
    LET message == [id |-> id, content |-> "hi", timestamp |-> timestamp,
                    sender |-> "bob", created_at |-> timestamp]
    IN  /\ Cardinality(WriteFile(worktree, message)) <= MaxInserts
        /\ worktree' = WriteFile(worktree, message)
        /\ last' = NoOutcome
        /\ UNCHANGED <<clock, store, call, index, commits, pushed,
                       inserts, handed, returned, attempts, client>>

NextNames ==
    \E id \in 1..MaxNameId, timestamp \in 1..MaxClock :
        WriteMessageFile(id, timestamp)

SpecNames == Init /\ [][NextNames]_vars

\* ------------------------------------------------------------ construction
\* what the environment holds for GITHUB_TOKEN and GITHUB_REPO: nothing, an
\* empty text, or a value
EnvValues == {None, "", "set"}

\* ConfigMissing that asks for both to be missing
ConfigMissingBoth(token, repo) == Falsy(token) /\ Falsy(repo)

\* __init__, line 32: not self.github_token or not self.repo_name
ConfigMissing(token, repo) == Falsy(token) \/ Falsy(repo)

\* what a construction ends with: the outcome keeps the environment it read
Constructed(t, op, status, token, repo) ==
    Outcome(t, op, status, "db1", NULL, NULL, <<>>)
    @@ [token |-> token, repo |-> repo]

\* GitSyncManager.__init__, lines 26-36 (also as DatabaseManager.__init__
\* runs it, line 24): ValueError when the configuration is missing,
\* otherwise the object
GitSyncManagerInit(t, token, repo) ==
    /\ call[t].pc = "idle"
    /\ IF ConfigMissing(token, repo)
       THEN /\ last' = Constructed(t, "GitSyncManager", "raised", token, repo)
            /\ client' = client
       ELSE /\ last' = Constructed(t, "GitSyncManager", "returned", token, repo)
            /\ client' = TRUE
    /\ UNCHANGED <<clock, store, call, worktree, index, commits, pushed,
                   inserts, handed, returned, attempts>>

\* init_repository, lines 164-174: clone when there is no .git, construct;
\* a failed clone or any exception gives None, not an exception
InitRepository(t, token, repo, cloned) ==
    /\ call[t].pc = "idle"
    /\ IF ~cloned \/ ConfigMissing(token, repo)
       THEN /\ last' = Constructed(t, "init_repository", "none", token, repo)
            /\ client' = client
       ELSE /\ last' = Constructed(t, "init_repository", "returned", token, repo)
            /\ client' = TRUE
    /\ UNCHANGED <<clock, store, call, worktree, index, commits, pushed,
                   inserts, handed, returned, attempts>>

\* nothing constructed yet
InitConfig ==
    /\ clock = 1
    /\ store = [d \in DBs |-> EmptyDb]
    /\ call = [t \in Threads |-> Idle]
    /\ last = NoOutcome
    /\ worktree = {}
    /\ index = {}
    /\ commits = <<>>
    /\ pushed = 0
    /\ inserts = 0
    /\ handed = [d \in DBs |-> 0]
    /\ attempts = 0
    /\ client = FALSE
    /\ returned = [d \in DBs |-> {}]

\* A process from its start: constructions under any environment, and
\* add_message once there is a manager
NextConfig ==
    \E t \in {"t1"} :
        \/ \E token \in EnvValues, repo \in EnvValues :
              \/ GitSyncManagerInit(t, token, repo)
              \/ \E cloned \in BOOLEAN : InitRepository(t, token, repo, cloned)
        \/ AddMessageInsert(t, "db1", "hi", "bob", NULL)
        \/ Step(t)

SpecConfig == InitConfig /\ [][NextConfig]_vars

\* ================================================================== claims
\* the stored row of message id in database d, as a set (empty when absent)
Stored(d, id) == {r \in store[d].rows : r.id = id}

\* the last step ended an add_message that had executed its INSERT
AddEnded == last.op = "add_message" /\ last.id # NULL
AddReturned == AddEnded /\ last.status = "returned"

\* C1: an add_message whose projection returned None ends by returning the
\* id, and the message is then stored unsynchronized with git_hash NULL.
C1_FailedProjectionKeepsMessage ==
    (AddEnded /\ last.commit_hash = NULL) =>
        /\ last.status = "returned"
        /\ \E r \in Stored(last.db, last.id) :
              ~r.is_synchronized /\ r.git_hash = NULL

\* C2: when add_message returns after a projection that gave commit hash r,
\* the stored message is synchronized and its git_hash is r.
C2_SuccessfulProjectionRecorded ==
    (AddReturned /\ last.commit_hash # NULL) =>
        \E r \in Stored(last.db, last.id) :
            r.is_synchronized /\ r.git_hash = last.commit_hash

C2_Witness == AddReturned /\ last.commit_hash # NULL

\* a sync_message call that has staged its file and not yet ended its push
InStageToPush(t) == call[t].pc \in {"sync_commit", "sync_revparse", "sync_push"}

\* C3: at most one sync_message call is between its stage step and the end
\* of its push step.
C3_ProjectionsNeverInterleave ==
    Cardinality({t \in Threads : InStageToPush(t)}) <= 1

\* C4: every stored message with is_synchronized has a non-NULL git_hash.
C4_SynchronizedHasRef ==
    \A d \in DBs : \A r \in store[d].rows : r.is_synchronized => r.git_hash # NULL

C4_Witness ==
    /\ last.op = "update_message_sync_status" /\ last.status = "returned"
    /\ \E r \in Stored(last.db, last.id) : r.is_synchronized

\* C5: an add_message whose INSERT succeeded ends by returning the id, with
\* the message in the store, whatever happens after the INSERT.
C5_InsertedMessageSurvives ==
    AddEnded => last.status = "returned" /\ Stored(last.db, last.id) # {}

\* C6: no add_message with an empty content or sender gets past the INSERT:
\* it creates no row and attempts no projection.
C6_EmptyInputRejected ==
    \A t \in Threads :
        call[t].pc # "idle" => call[t].content # "" /\ call[t].sender # ""

C8_IdsNeverReused ==
    [][\A t \in Threads :
          (call[t].pc = "idle" /\ call'[t].pc # "idle") =>
              call'[t].message_id > handed[call'[t].db]]_vars

\* C9: a stored message that is synchronized is stored and synchronized
\* after every step.
C9_SynchronizedStays ==
    [][\A d \in DBs : \A r \in store[d].rows :
          r.is_synchronized =>
              \E n \in store'[d].rows : n.id = r.id /\ n.is_synchronized]_vars

C9_Witness ==
    /\ last.op = "update_message_sync_status" /\ last.status = "returned"
    /\ \E r \in Stored(last.db, last.id) : r.is_synchronized /\ r.updated_at > r.created_at
    /\ \E o \in store[last.db].rows :
          o.id # last.id /\ o.is_synchronized /\ o.updated_at # NULL

\* C10: every message whose add_message returned is stored under its id with
\* the content, sender, timestamp and created_at of its INSERT.
C10_ReturnedMessagesKept ==
    \A d \in DBs : \A m \in returned[d] :
        \E r \in store[d].rows :
            /\ r.id = m.id
            /\ r.content = m.content
            /\ r.sender = m.sender
            /\ r.timestamp = m.timestamp
            /\ r.created_at = m.created_at

C10_Witness ==
    /\ last.op = "update_message_sync_status" /\ last.status = "returned"
    /\ \E m \in returned[last.db] : m.id = last.id /\ m.timestamp < clock
    /\ Cardinality(returned[last.db]) > 1

\* the last step reported a submit as successful: add_message returned the
\* id, or POST /messages was answered 201 Created
SubmitSucceeded ==
    \/ AddReturned
    \/ last.op = "handle_new_message" /\ last.status = "201"

\* C11: when a submit is reported successful, every accepted insert so far
\* has had exactly one projection attempt; none has had zero, none two.
C11_OneProjectionPerAcceptedSubmit == SubmitSucceeded => attempts = inserts

\* a call inside sync_message on database d
InProjection(d) == \E t \in Threads : call[t].pc \in SyncSteps /\ call[t].db = d

\* C12: an add_message that ends while another call is inside its projection
\* has inserted its message and returned the id; the projection of the other
\* call has not made it fail with a store error.
C12_ProjectionLeavesWritePath ==
    (last.op = "add_message" /\ InProjection(last.db)) =>
        last.status = "returned" /\ last.id # NULL

\* C16: every add_message that starts returns (or raises) in the end: no
\* step of it blocks for ever.
C16_EverySubmitReturns ==
    \A t \in Threads : (call[t].pc # "idle") ~> (call[t].pc = "idle")

\* the message dict add_message built for a stored row
RowMessage(r) == [id |-> r.id, content |-> r.content, timestamp |-> r.timestamp,
                  sender |-> r.sender, created_at |-> r.created_at]

\* the artifacts of the successfully projected messages
ProjectedFiles ==
    {File(RowMessage(r)) : r \in {x \in UNION {store[d].rows : d \in DBs} :
                                      x.is_synchronized}}

\* the commits of the history that hold file f
CommitsWith(f) == {i \in 1..Len(commits) : f \in commits[i].files}

\* C13: once every add_message has ended, the history of the working copy
\* holds exactly one artifact for each successfully projected message, none
\* for any other message, and no commit holds the artifacts of two messages.
C13_OneArtifactPerProjectedMessage ==
    (\A t \in Threads : call[t].pc = "idle") =>
        /\ \A f \in ProjectedFiles : Cardinality(CommitsWith(f)) = 1
        /\ \A i \in 1..Len(commits) : commits[i].files \subseteq ProjectedFiles
        /\ \A i \in 1..Len(commits) : Cardinality(commits[i].files) <= 1

\* C14: a POST /messages with non-empty content and sender is answered 201
\* Created only after a projection attempt for the new message, and the row
\* stored for it is then either synchronized with the commit hash as its
\* git_hash, or unsynchronized with git_hash NULL.
C14_PostIsProjected ==
    (last.op = "handle_new_message" /\ last.status = "201") =>
        /\ attempts > 0
        /\ \E r \in Stored(last.db, last.id) :
              \/ r.is_synchronized /\ r.git_hash # NULL
              \/ ~r.is_synchronized /\ r.git_hash = NULL

\* C15: sync_message always comes back to add_message with a value, never
\* with an exception; the value is a commit hash exactly when the call came
\* through every step and its push went out, and None when a step failed,
\* the push after a commit that was made included.
C15_SyncReturnsHashOnlyAfterPush ==
    [][\A t \in Threads :
          (call[t].pc \in SyncSteps /\ call'[t].pc \notin SyncSteps) =>
              /\ call'[t].pc = "finish"
              /\ (call'[t].commit_hash # NULL) <=>
                    /\ call[t].pc = "sync_push"
                    /\ pushed' = Len(commits) /\ pushed' > pushed
                    /\ call'[t].commit_hash = call[t].commit_hash
                    /\ File(Message(call[t])) \in HeadTree(commits)]_vars

\* sync_message has returned None with its commit made and not pushed
C15_Witness ==
    \E t \in Threads :
        /\ call[t].pc = "finish" /\ call[t].commit_hash = NULL
        /\ Len(commits) > pushed
        /\ commits[Len(commits)].message_id = call[t].message_id

\* C17: update_message_sync_status with an id no stored message has ends by
\* returning, not by an exception for the missing id; it creates no row and
\* leaves every row as it was.
C17_UnknownIdChangesNothing ==
    [][(/\ last'.op = "update_message_sync_status"
        /\ last'.id # NULL
        /\ Stored(last'.db, last'.id) = {}) =>
            last'.status = "returned" /\ store' = store]_vars

\* update_message_sync_status has returned for an id that is not stored,
\* in a database that has rows
C17_Witness ==
    /\ last.op = "update_message_sync_status" /\ last.status = "returned"
    /\ last.id # NULL
    /\ Stored(last.db, last.id) = {}
    /\ store[last.db].rows # {}

\* the rows of a table that come before row r by timestamp, and those that
\* do not come after it
Newer(rows, r) == {o \in rows : o.timestamp > r.timestamp}
NotOlder(rows, r) == {o \in rows : o.timestamp >= r.timestamp}

\* list is what stands at positions offset .. offset+limit-1 (counted from
\* 0) of rows ordered by descending timestamp: it has one entry for each of
\* these positions the table has, in order, each a row that can stand at its
\* position, and no row twice
IsPage(list, rows, limit, offset) ==
    LET positions == {k \in offset..(offset + limit - 1) :
                         k >= 0 /\ k < Cardinality(rows)}
        first == IF offset < 0 THEN 0 ELSE offset
    IN  /\ Len(list) = Cardinality(positions)
        /\ \A i \in 1..Len(list) :
              /\ list[i] \in rows
              /\ Cardinality(Newer(rows, list[i])) <= first + i - 1
              /\ first + i - 1 < Cardinality(NotOlder(rows, list[i]))
        /\ \A i \in 1..Len(list) : \A j \in 1..Len(list) :
              i # j => list[i] # list[j]

ListEnded == last.op = "get_messages" /\ last.status = "returned"

\* the most messages a list of at most limit messages can have
AtMost(limit) == IF limit < 0 THEN 0 ELSE limit

\* C18 as stated: for every limit and every offset, get_messages returns the
\* messages at positions offset .. offset+limit-1 of the table ordered by
\* descending timestamp, and never more than limit of them.
C18_ListIsPage ==
    ListEnded =>
        /\ IsPage(last.rows, store[last.db].rows, last.limit, last.offset)
        /\ Len(last.rows) <= AtMost(last.limit)

\* C18 for the arguments it is true of: limit >= 0 and offset >= 0.
C18_ListIsPageOfNaturals ==
    (ListEnded /\ last.limit >= 0 /\ last.offset >= 0) =>
        /\ IsPage(last.rows, store[last.db].rows, last.limit, last.offset)
        /\ Len(last.rows) <= last.limit
        /\ \A i \in 1..Len(last.rows) : \A j \in 1..Len(last.rows) :
              i < j => last.rows[i].timestamp >= last.rows[j].timestamp

\* get_messages(2, 2) has returned the third and fourth newest of four (or
\* more) messages with strictly increasing timestamps
C18_Witness ==
    /\ ListEnded /\ last.limit = 2 /\ last.offset = 2
    /\ Cardinality(store[last.db].rows) >= 4
    /\ \A r \in store[last.db].rows : \A o \in store[last.db].rows :
          r.id < o.id => r.timestamp < o.timestamp
    /\ Len(last.rows) = 2
    /\ last.rows[1].id = Cardinality(store[last.db].rows) - 2
    /\ last.rows[2].id = Cardinality(store[last.db].rows) - 3

\* C19: a get_messages call changes no message and no synchronization
\* status, and makes no projection; two calls with the same limit and offset
\* and nothing between them return the same list.
C19_ListReadOnlyRepeatable ==
    [][(last'.op = "get_messages") =>
          /\ store' = store /\ call' = call
          /\ worktree' = worktree /\ index' = index
          /\ commits' = commits /\ pushed' = pushed
          /\ attempts' = attempts
          /\ (/\ last.op = "get_messages" /\ last.db = last'.db
              /\ last.limit = last'.limit /\ last.offset = last'.offset)
                => last'.rows = last.rows]_vars

\* get_messages has returned a list with a synchronized message in it while
\* an add_message of another thread is in flight
C19_Witness ==
    /\ ListEnded
    /\ \E i \in 1..Len(last.rows) : last.rows[i].is_synchronized
    /\ \E t \in Threads : call[t].pc # "idle"

\* C20: a stored message has a git_hash only if it is synchronized; one that
\* was never synchronized has git_hash NULL.
C20_RefOnlyIfSynchronized ==
    \A d \in DBs : \A r \in store[d].rows : r.git_hash # NULL => r.is_synchronized

\* C21: the file names of two messages with distinct ids differ, also when
\* their timestamps are the same: writing the file of a message replaces no
\* file but one written for the same id.
C21_NoArtifactOverwritten ==
    [][\A f \in worktree : f \notin worktree' =>
          \E g \in worktree' : g.name = f.name /\ g.msg.id = f.msg.id]_vars

\* two files are there for messages of one timestamp and distinct ids, one
\* id with more digits than the other
C21_Witness ==
    \E f \in worktree : \E g \in worktree :
        /\ f.msg.timestamp = g.msg.timestamp
        /\ f.msg.id < 10 /\ g.msg.id >= 10

\* C22: constructing a GitSyncManager raises whenever GITHUB_TOKEN or
\* GITHUB_REPO is missing, one of them or both, and leaves no manager
\* behind; with both set it succeeds; and sync_message is only ever called
\* on a manager that was constructed.
C22_ConstructionNeedsConfiguration ==
    [][/\ (last'.op = "GitSyncManager") =>
            IF last'.token \in {None, ""} \/ last'.repo \in {None, ""}
            THEN last'.status = "raised" /\ client' = client
            ELSE last'.status = "returned" /\ client'
       /\ (last'.op = "init_repository" /\ last'.status = "returned") =>
            last'.token = "set" /\ last'.repo = "set"
       /\ attempts' > attempts => client]_vars

\* a construction has failed for a missing GITHUB_REPO alone, and no
\* manager exists
C22_Witness ==
    /\ last.op = "GitSyncManager" /\ last.status = "raised"
    /\ last.token = "set" /\ last.repo = None
    /\ ~client

\* the artifacts in the history of the remote
PushedFiles == UNION {commits[i].files : i \in 1..pushed}

\* C23: in every state, every artifact pushed to the remote is the artifact
\* of a message stored (committed) in a database.
C23_PushedArtifactHasMessage ==
    \A f \in PushedFiles :
        \E d \in DBs : \E r \in store[d].rows : RowMessage(r) = f.msg

\* C24: when sync_message has returned a commit hash for a message, that
\* hash names the commit that added the message's file, whatever other
\* sync_message calls ran in between.
C24_HashNamesOwnCommit ==
    \A t \in Threads :
        (call[t].pc = "finish" /\ call[t].commit_hash # NULL) =>
            File(Message(call[t])) \in commits[call[t].commit_hash].files

\* C25: in every state, the artifact of a message stored as synchronized is
\* in the history of the remote.
C25_SynchronizedIsPushed ==
    \A d \in DBs : \A r \in store[d].rows :
        r.is_synchronized => File(RowMessage(r)) \in PushedFiles

\* C26: a get_messages call that runs while an add_message is between its
\* INSERT and its COMMIT does not see that call's message; what it lists are
\* committed rows, each with the status its add_message ended with.
C26_ReaderSeesNoOpenInsert ==
    ListEnded =>
        \A i \in 1..Len(last.rows) :
            /\ last.rows[i] \in store[last.db].rows
            /\ \A t \in Threads :
                  (call[t].pc # "idle" /\ call[t].db = last.db) =>
                      last.rows[i].id # call[t].message_id

\* get_messages has returned a message while another call's projection has
\* succeeded and its transaction is not yet committed
C26_Witness ==
    /\ ListEnded /\ Len(last.rows) > 0
    /\ \E t \in Threads :
          /\ call[t].pc = "finish" /\ call[t].commit_hash # NULL
          /\ call[t].db = last.db

\* C27: once a message is stored as synchronized with git_hash r, it has
\* git_hash r in every later state: no later add_message and no later
\* update_message_sync_status puts another hash in its place.
C27_RefNeverReplaced ==
    [][\A d \in DBs : \A r \in store[d].rows :
          r.is_synchronized =>
              \A n \in store'[d].rows : n.id = r.id => n.git_hash = r.git_hash]_vars

====
